---------------------------- MODULE Spec2Model ----------------------------
(***************************************************************************)
(* llmbox: speech -> text -> reply -> speech pipeline.                     *)
(*                                                                         *)
(*   STTManager  (stt_manager.py)  recognition callback + worker threads   *)
(*   LLMManager  (llm_manager.py)  Reply Stage: expiring queue, history    *)
(*   TTSManager  (tts_manager.py)  Speech Stage: expiring queue, speaker   *)
(*                                 lock                                    *)
(*                                                                         *)
(* The asyncio event loop is single-threaded: a coroutine runs from one    *)
(* suspension point to the next without interleaving with other            *)
(* coroutines, so each such segment is one action.  The asyncio.Lock       *)
(* _message_task_lock is only ever held across code without an await, so  *)
(* it is never contended and acquiring it never suspends.  Threads (the    *)
(* recognition workers, the to_thread workers, the clock) interleave       *)
(* freely with the loop's segments.                                        *)
(***************************************************************************)
EXTENDS Naturals, Integers, Sequences, FiniteSets, TLC

(***************************************************************************)
(* Bounds of the model.                                                    *)
(***************************************************************************)
\* number of audio samples the background listener delivers
MaxAudio == 2
\* the clock stops advancing at StartTime + MaxElapsed
MaxElapsed == 3
\* the non-zero task_expire_time (ttl) configured (seconds, scaled down)
TaskExpireTime == 1
\* recollection_time, the idle-reset threshold (seconds, scaled down)
RecollectionTime == 1
\* max_message_history, the deque's maxlen (scaled down)
MaxMessageHistory == 2
\* worker threads of the loop's default executor used by asyncio.to_thread
\* (min(32, cpu_count + 4) in CPython, scaled down with MaxAudio: the pool is
\* fixed, and more speech tasks can be in flight than it has threads)
Workers == 1

(***************************************************************************)
(* Program constants.                                                      *)
(***************************************************************************)
\* asyncio.sleep(2) after playback
Cooldown == 2

\* time.time() is seconds since the epoch: far beyond recollection_time when
\* the program starts, so the first comparison against _last_message_time = 0.0
\* always exceeds the threshold.
StartTime == RecollectionTime + 1
MaxTime == StartTime + MaxElapsed

Samples == 1..MaxAudio

(***************************************************************************)
(* Text: a string is a sequence of one-character strings.                  *)
(***************************************************************************)
UpperLetters ==
    << "A","B","C","D","E","F","G","H","I","J","K","L","M",
       "N","O","P","Q","R","S","T","U","V","W","X","Y","Z" >>
LowerLetters ==
    << "a","b","c","d","e","f","g","h","i","j","k","l","m",
       "n","o","p","q","r","s","t","u","v","w","x","y","z" >>
Digits == << "0","1","2","3","4","5","6","7","8","9" >>
Punctuation == << " ", ".", ",", "?", "!", "{", "}", "-", "_" >>

Range(s) == { s[i] : i \in DOMAIN s }

\* ALLOWED_CHARACTERS = string.ascii_letters + string.digits + " .,?!{}-_"
ALLOWED_CHARACTERS ==
    Range(LowerLetters) \cup Range(UpperLetters) \cup Range(Digits)
        \cup Range(Punctuation)

\* characters str.strip() removes
Whitespace == { " ", "\t", "\n", "\r" }

\* str.lower(), one character
LowerChar(c) ==
    IF \E i \in DOMAIN UpperLetters : UpperLetters[i] = c
    THEN LowerLetters[CHOOSE i \in DOMAIN UpperLetters : UpperLetters[i] = c]
    ELSE c

Lower(s) == [ i \in DOMAIN s |-> LowerChar(s[i]) ]

RECURSIVE LStrip(_)
LStrip(s) ==
    IF s # << >> /\ Head(s) \in Whitespace THEN LStrip(Tail(s)) ELSE s

RECURSIVE RStrip(_)
RStrip(s) ==
    IF s # << >> /\ s[Len(s)] \in Whitespace
    THEN RStrip(SubSeq(s, 1, Len(s) - 1))
    ELSE s

\* str.strip()
Strip(s) == RStrip(LStrip(s))

\* str.removesuffix("."): removes one trailing "." if there is one
RemoveSuffixDot(s) ==
    IF s # << >> /\ s[Len(s)] = "." THEN SubSeq(s, 1, Len(s) - 1) ELSE s

\* text.lower().strip().removesuffix(".")
NormalizeTranscriptKeepsDot(s) == Strip(Lower(s))
NormalizeTranscript(s) == RemoveSuffixDot(Strip(Lower(s)))

\* LLMManager._filter_letters
FilterLettersKeepsAll(text) == text
FilterLetters(text) == SelectSeq(text, LAMBDA c : c \in ALLOWED_CHARACTERS)

ThinkEnd == << "<", "/", "t", "h", "i", "n", "k", ">" >>

\* positions where the delimiter "</think>" starts in s
ThinkEndAt(s) ==
    { i \in 1..Len(s) :
        /\ i + Len(ThinkEnd) - 1 <= Len(s)
        /\ SubSeq(s, i, i + Len(ThinkEnd) - 1) = ThinkEnd }

Min(S) == CHOOSE x \in S : \A y \in S : x <= y

\* reply.split("</think>", 1)[-1]: what follows the first delimiter, or the
\* whole string when there is none
AfterThink(s) ==
    IF ThinkEndAt(s) = {} THEN s
    ELSE SubSeq(s, Min(ThinkEndAt(s)) + Len(ThinkEnd), Len(s))

\* reply.message.content.strip(), split, _filter_letters
CleanReply(content) == FilterLetters(AfterThink(Strip(content)))


(***************************************************************************)
(* Inputs from the external collaborators.                                 *)
(***************************************************************************)
\* what recognizer.recognize_openai can return
Transcripts ==
    { << >>,
      << "." >>,
      << " ", "\n" >>,
      << "H", "i", "." >>,
      << " ", "N", "o", " ", "." >> }

\* outcome of a transcription: an exception or a text
TranscriptionOutcomes ==
    { [kind |-> "error", text |-> << >>] }
        \cup { [kind |-> "text", text |-> t] : t \in Transcripts }

\* what reply.message.content can be
ReplyContents ==
    { << >>,
      << "@", "\n" >>,
      << "h", "m", "<", "/", "t", "h", "i", "n", "k", ">", " ", "O", "~",
         "k" >> }

\* outcome of self._client.chat: an exception, None, or a reply object
ChatOutcomes ==
    { [kind |-> "error", content |-> << >>],
      [kind |-> "none", content |-> << >>] }
        \cup { [kind |-> "message", content |-> c] : c \in ReplyContents }

NoReply == [kind |-> "unset", content |-> << >>]
NoTranscript == [kind |-> "unset", text |-> << >>]

(***************************************************************************)
(* State.                                                                  *)
(***************************************************************************)
VARIABLES
    clock,              \* time.time()
    task_expire_time,   \* expire_time given to both managers by main
    speaker_lock,       \* threading.Lock shared by STT and TTS: TRUE = locked
    heard,              \* audio samples the listener has passed to callback
    stt,                \* per sample: the recognition path's position
    llm_ready,          \* LLM put_nowait calls handed to the loop, not yet run
    llm_queue,          \* LLMManager._queue
    llm,                \* per task: LLMManager._execute_task's position
    message_history,    \* LLMManager._message_history
    last_message_time,  \* LLMManager._last_message_time
    history_hash,       \* LLMManager._message_history_hash
    tts_ready,          \* TTS put_nowait calls handed to the loop, not yet run
    tts_queue,          \* TTSManager._queue
    tts,                \* per task: TTSManager._execute_task's position
    executor_queue,     \* to_thread jobs waiting for a worker thread
    max_message_history,\* max_message_history given to LLMManager by main
    appended,           \* messages appended since the history was last cleared
    appended_by,        \* per message of appended: the execution that added it
    last_execution_end  \* when an LLM _execute_task last returned (0: never)

vars ==
    << clock, task_expire_time, speaker_lock, heard, stt, llm_ready, llm_queue,
       llm, message_history, last_message_time, history_hash, tts_ready,
       tts_queue, tts, executor_queue, max_message_history, appended,
       appended_by, last_execution_end >>


\* LLMTask / TTSTask; id tells the task objects apart
Task(id, time, text) == [id |-> id, receiving_time |-> time, text |-> text]

\* Message
Message(text, role) == [text |-> text, role |-> role]

\* a recognition's locals: the transcription result, the text and time of
\* the task built from it; what locked() returned to its callback, and
\* whether the lock was held when its add_task ran
SttIdle == [pc |-> "idle", result |-> NoTranscript, text |-> << >>,
            receiving_time |-> 0, saw_locked |-> FALSE,
            locked_at_add |-> FALSE]
\* a processing unit's locals: the task it was created for, the time its task
\* was dequeued (while it has not started), the history snapshot sent to the
\* chat call (without the fixed system prompt), the chat result, the wake-up
\* time
LlmNone == [pc |-> "none", text |-> << >>, receiving_time |-> 0,
            dequeued_at |-> 0, messages |-> << >>, reply |-> NoReply]
TtsNone == [pc |-> "none", input |-> << >>, receiving_time |-> 0,
            dequeued_at |-> 0, wake |-> 0]

\* main: the configuration and the freshly constructed managers
Init ==
    /\ clock = StartTime
    /\ task_expire_time \in {0, TaskExpireTime}
    /\ speaker_lock = FALSE
    /\ heard = 0
    /\ stt = [i \in Samples |-> SttIdle]
    /\ llm_ready = << >>
    /\ llm_queue = << >>
    /\ llm = [i \in Samples |-> LlmNone]
    /\ message_history = << >>
    /\ last_message_time = 0
    /\ history_hash = 0
    /\ tts_ready = << >>
    /\ tts_queue = << >>
    /\ tts = [i \in Samples |-> TtsNone]
    /\ executor_queue = << >>
    /\ max_message_history = MaxMessageHistory
    /\ appended = << >>
    /\ appended_by = << >>
    /\ last_execution_end = 0

\* time passes
Tick ==
    /\ clock < MaxTime
    /\ clock' = clock + 1
    /\ UNCHANGED << task_expire_time, speaker_lock, heard, stt, llm_ready,
                    llm_queue, llm, message_history, last_message_time,
                    history_hash, tts_ready, tts_queue, tts, executor_queue,
                    appended, appended_by, max_message_history,
                    last_execution_end >>

(***************************************************************************)
(* STTManager                                                              *)
(***************************************************************************)
\* "if self._speaker_lock.locked()": the callback skips the sample
CallbackSkipsNever(locked) == FALSE
CallbackSkips(locked) == locked

\* STTManager.callback, on the listener's thread, for the next audio sample
Callback ==
    /\ heard < MaxAudio
    /\ heard' = heard + 1
    /\ stt' = [stt EXCEPT ![heard + 1].pc =
                  IF CallbackSkips(speaker_lock) THEN "skipped"
                  ELSE "submitted",
                          ![heard + 1].saw_locked = speaker_lock]
    /\ UNCHANGED << clock, task_expire_time, speaker_lock, llm_ready,
                    llm_queue, llm, message_history, last_message_time,
                    history_hash, tts_ready, tts_queue, tts, executor_queue,
                    appended, appended_by, max_message_history,
                    last_execution_end >>

\* STTManager.recognize on an executor thread: recognize_openai returns a
\* text or raises.  The ThreadPoolExecutor of STTManager has at least five
\* threads, more than there are samples, so a submitted job runs at once.
Recognize(i, out) ==
    /\ stt[i].pc = "submitted"
    /\ stt' = [stt EXCEPT ![i].pc = "transcribed", ![i].result = out]
    /\ UNCHANGED << clock, task_expire_time, speaker_lock, heard, llm_ready,
                    llm_queue, llm, message_history, last_message_time,
                    history_hash, tts_ready, tts_queue, tts, executor_queue,
                    appended, appended_by, max_message_history,
                    last_execution_end >>

\* recognize after the transcription call: return on an exception, normalise
\* the text, return when it is empty, build LLMTask(time.time(), text)
RecognizeResult(i) ==
    /\ stt[i].pc = "transcribed"
    /\ LET out == stt[i].result
           text == NormalizeTranscript(out.text)
       IN  stt' = [stt EXCEPT
              ![i].result = NoTranscript,
              ![i].pc = IF out.kind = "error" THEN "failed"
                        ELSE IF Len(text) = 0 THEN "nospeech"
                        ELSE "have_task",
              ![i].text = IF out.kind = "error" THEN << >> ELSE text,
              ![i].receiving_time =
                        IF out.kind = "error" \/ Len(text) = 0 THEN 0
                        ELSE clock]
    /\ UNCHANGED << clock, task_expire_time, speaker_lock, heard, llm_ready,
                    llm_queue, llm, message_history, last_message_time,
                    history_hash, tts_ready, tts_queue, tts, executor_queue,
                    appended, appended_by, max_message_history,
                    last_execution_end >>

\* LLMManager.add_task called by recognize: under _queue_lock, hand
\* put_nowait(task) to the loop with call_soon_threadsafe
LLMAddTask(i) ==
    /\ stt[i].pc = "have_task"
    /\ llm_ready' =
         Append(llm_ready, Task(i, stt[i].receiving_time, stt[i].text))
    /\ stt' = [stt EXCEPT ![i].pc = "added", ![i].text = << >>,
                          ![i].receiving_time = 0,
                          ![i].locked_at_add = speaker_lock]
    /\ UNCHANGED << clock, task_expire_time, speaker_lock, heard, llm_queue,
                    llm, message_history, last_message_time, history_hash,
                    tts_ready, tts_queue, tts, executor_queue, appended,
                    appended_by, max_message_history, last_execution_end >>

(***************************************************************************)
(* LLMManager                                                              *)
(***************************************************************************)
\* LLMManager._has_expired / TTSManager._has_expired (the same code)
HasExpiredNever(receiving_time, ttl, now) == FALSE
HasExpiredIgnoresZero(receiving_time, ttl, now) == receiving_time + ttl < now
HasExpired(receiving_time, ttl, now) ==
    IF ttl = 0 THEN FALSE ELSE receiving_time + ttl < now

\* the loop runs the put_nowait(task) that add_task handed over
LLMPutFront ==
    /\ llm_ready # << >>
    /\ llm_queue' = << Head(llm_ready) >> \o llm_queue
    /\ llm_ready' = Tail(llm_ready)
    /\ UNCHANGED << clock, task_expire_time, speaker_lock, heard, stt, llm,
                    message_history, last_message_time, history_hash,
                    tts_ready, tts_queue, tts, executor_queue, appended,
                    appended_by, max_message_history, last_execution_end >>
LLMPut ==
    /\ llm_ready # << >>
    /\ llm_queue' = Append(llm_queue, Head(llm_ready))
    /\ llm_ready' = Tail(llm_ready)
    /\ UNCHANGED << clock, task_expire_time, speaker_lock, heard, stt, llm,
                    message_history, last_message_time, history_hash,
                    tts_ready, tts_queue, tts, executor_queue, appended,
                    appended_by, max_message_history, last_execution_end >>

\* LLMManager._consume_tasks, one iteration: dequeue, drop an expired task,
\* create the task's _execute_task otherwise
LLMConsume ==
    /\ llm_queue # << >>
    /\ LET task == Head(llm_queue) IN
        /\ llm_queue' = Tail(llm_queue)
        /\ llm' = [llm EXCEPT ![task.id] =
              [pc |-> IF HasExpired(task.receiving_time, task_expire_time,
                                    clock)
                      THEN "expired" ELSE "start",
               text |-> task.text,
               receiving_time |-> task.receiving_time,
               dequeued_at |-> clock,
               messages |-> << >>,
               reply |-> NoReply]]
    /\ UNCHANGED << clock, task_expire_time, speaker_lock, heard, stt,
                    llm_ready, message_history, last_message_time,
                    history_hash, tts_ready, tts_queue, tts, executor_queue,
                    appended, appended_by, max_message_history,
                    last_execution_end >>

\* random_string(10): a token not used before
RandomString(previous) == previous + 1

\* deque(maxlen = max_message_history).append
DequeAppendUnbounded(history, message) == Append(history, message)
DequeAppendDropsNewest(history, message) ==
    IF Len(history) >= max_message_history THEN history
    ELSE Append(history, message)
DequeAppend(history, message) ==
    IF max_message_history = 0 THEN << >>
    ELSE IF Len(history) >= max_message_history
         THEN Append(Tail(history), message)
         ELSE Append(history, message)

\* the idle check of _execute_task
IdleTooLongLate(now, last) == now - last > RecollectionTime + 1
IdleTooLong(now, last) == now - last > RecollectionTime

\* the start of _execute_task: _reset_history when idle for longer than
\* recollection_time; the session (history, last message time, hash, and
\* the messages appended since the last clear and who appended them) that
\* results
MaybeResetKeepsTime(now) ==
    IF IdleTooLong(now, last_message_time)
    THEN [history |-> << >>, last |-> last_message_time,
          hash |-> RandomString(history_hash),
          appended |-> << >>, by |-> << >>]
    ELSE [history |-> message_history, last |-> last_message_time,
          hash |-> history_hash, appended |-> appended, by |-> appended_by]
MaybeReset(now) ==
    IF IdleTooLong(now, last_message_time)
    THEN [history |-> << >>, last |-> 0, hash |-> RandomString(history_hash),
          appended |-> << >>, by |-> << >>]
    ELSE [history |-> message_history, last |-> last_message_time,
          hash |-> history_hash, appended |-> appended, by |-> appended_by]

\* _execute_task from its start to the await of self._client.chat: idle
\* reset, user append, snapshot of the history for the call
LLMStartSerialized(u) ==
    /\ llm[u].pc = "start"
    /\ \A v \in Samples : llm[v].pc \notin {"chat", "resume"}
    /\ LET s == MaybeReset(clock)
           user_message == Message(llm[u].text, "user")
       IN  /\ message_history' = DequeAppend(s.history, user_message)
           /\ last_message_time' = s.last
           /\ history_hash' = s.hash
           /\ appended' = Append(s.appended, user_message)
           /\ appended_by' = Append(s.by, u)
    /\ llm' = [llm EXCEPT ![u].pc = "chat", ![u].dequeued_at = 0,
                          ![u].messages = message_history']
    /\ UNCHANGED << clock, task_expire_time, speaker_lock, heard, stt,
                    llm_ready, llm_queue, tts_ready, tts_queue, tts,
                    executor_queue, max_message_history, last_execution_end >>
LLMStart(u) ==
    /\ llm[u].pc = "start"
    /\ LET s == MaybeReset(clock)
           user_message == Message(llm[u].text, "user")
       IN  /\ message_history' = DequeAppend(s.history, user_message)
           /\ last_message_time' = s.last
           /\ history_hash' = s.hash
           /\ appended' = Append(s.appended, user_message)
           /\ appended_by' = Append(s.by, u)
    /\ llm' = [llm EXCEPT ![u].pc = "chat", ![u].dequeued_at = 0,
                          ![u].messages = message_history']
    /\ UNCHANGED << clock, task_expire_time, speaker_lock, heard, stt,
                    llm_ready, llm_queue, tts_ready, tts_queue, tts,
                    executor_queue, max_message_history, last_execution_end >>

\* self._client.chat returns or raises
LLMChatReturn(u, out) ==
    /\ llm[u].pc = "chat"
    /\ llm' = [llm EXCEPT ![u].pc = "resume", ![u].reply = out]
    /\ UNCHANGED << clock, task_expire_time, speaker_lock, heard, stt,
                    llm_ready, llm_queue, message_history, last_message_time,
                    history_hash, tts_ready, tts_queue, tts, executor_queue,
                    appended, appended_by, max_message_history,
                    last_execution_end >>

\* the history after "if reply is None": self._message_history.clear()
ClearOnNoReplyKeeps(history) == history
ClearOnNoReply(history) == << >>

\* _execute_task resumes on an exception of the call: log and return
LLMResumeErrorClears(u) ==
    /\ llm[u].pc = "resume"
    /\ llm[u].reply.kind = "error"
    /\ message_history' = << >>
    /\ appended' = << >>
    /\ appended_by' = << >>
    /\ llm' = [llm EXCEPT ![u] = [LlmNone EXCEPT !.pc = "failed"]]
    /\ last_execution_end' = clock
    /\ UNCHANGED << clock, task_expire_time, speaker_lock, heard, stt,
                    llm_ready, llm_queue, last_message_time, history_hash,
                    tts_ready, tts_queue, tts, executor_queue,
                    max_message_history >>
LLMResumeError(u) ==
    /\ llm[u].pc = "resume"
    /\ llm[u].reply.kind = "error"
    /\ llm' = [llm EXCEPT ![u] = [LlmNone EXCEPT !.pc = "failed"]]
    /\ last_execution_end' = clock
    /\ UNCHANGED << clock, task_expire_time, speaker_lock, heard, stt,
                    llm_ready, llm_queue, message_history, last_message_time,
                    history_hash, tts_ready, tts_queue, tts, executor_queue,
                    appended, appended_by, max_message_history >>

\* _execute_task resumes with reply None: clear the history and return
LLMResumeNone(u) ==
    /\ llm[u].pc = "resume"
    /\ llm[u].reply.kind = "none"
    /\ message_history' = ClearOnNoReply(message_history)
    /\ appended' = IF message_history' = << >> THEN << >> ELSE appended
    /\ appended_by' = IF message_history' = << >> THEN << >> ELSE appended_by
    /\ llm' = [llm EXCEPT ![u] = [LlmNone EXCEPT !.pc = "noreply"]]
    /\ last_execution_end' = clock
    /\ UNCHANGED << clock, task_expire_time, speaker_lock, heard, stt,
                    llm_ready, llm_queue, last_message_time, history_hash,
                    tts_ready, tts_queue, tts, executor_queue,
                    max_message_history >>

\* _execute_task resumes with a reply whose cleaned text is empty: return
LLMResumeEmpty(u) ==
    /\ llm[u].pc = "resume"
    /\ llm[u].reply.kind = "message"
    /\ CleanReply(llm[u].reply.content) = << >>
    /\ llm' = [llm EXCEPT ![u] = [LlmNone EXCEPT !.pc = "empty"]]
    /\ last_execution_end' = clock
    /\ UNCHANGED << clock, task_expire_time, speaker_lock, heard, stt,
                    llm_ready, llm_queue, message_history, last_message_time,
                    history_hash, tts_ready, tts_queue, tts, executor_queue,
                    appended, appended_by, max_message_history >>

\* _execute_task resumes with a usable reply: assistant append, last message
\* time, TTSManager.add_task.  time.time() is read twice (lines 190 and
\* 193): the clock may advance by d between the two reads.
LLMResumeReply(u, d) ==
    /\ llm[u].pc = "resume"
    /\ llm[u].reply.kind = "message"
    /\ CleanReply(llm[u].reply.content) # << >>
    /\ clock + d <= MaxTime
    /\ LET reply == CleanReply(llm[u].reply.content)
           assistant_message == Message(reply, "assistant")
       IN  /\ message_history' = DequeAppend(message_history, assistant_message)
           /\ appended' = Append(appended, assistant_message)
           /\ appended_by' = Append(appended_by, u)
           /\ last_message_time' = clock
           /\ clock' = clock + d
           /\ tts_ready' = Append(tts_ready, Task(u, clock', reply))
    /\ llm' = [llm EXCEPT ![u] = [LlmNone EXCEPT !.pc = "done"]]
    /\ last_execution_end' = clock'
    /\ UNCHANGED << task_expire_time, speaker_lock, heard, stt, llm_ready,
                    llm_queue, history_hash, tts_queue, tts, executor_queue,
                    max_message_history >>

(***************************************************************************)
(* TTSManager                                                              *)
(***************************************************************************)
\* the loop runs the put_nowait(task) that add_task handed over
TTSPut ==
    /\ tts_ready # << >>
    /\ tts_queue' = Append(tts_queue, Head(tts_ready))
    /\ tts_ready' = Tail(tts_ready)
    /\ UNCHANGED << clock, task_expire_time, speaker_lock, heard, stt,
                    llm_ready, llm_queue, llm, message_history,
                    last_message_time, history_hash, tts, executor_queue,
                    appended, appended_by, max_message_history,
                    last_execution_end >>

\* TTSManager._consume_tasks, one iteration
TTSConsume ==
    /\ tts_queue # << >>
    /\ LET task == Head(tts_queue) IN
        /\ tts_queue' = Tail(tts_queue)
        /\ tts' = [tts EXCEPT ![task.id] =
              [pc |-> IF HasExpired(task.receiving_time, task_expire_time,
                                    clock)
                      THEN "expired" ELSE "start",
               input |-> task.text,
               receiving_time |-> task.receiving_time,
               dequeued_at |-> clock,
               wake |-> 0]]
    /\ UNCHANGED << clock, task_expire_time, speaker_lock, heard, stt,
                    llm_ready, llm_queue, llm, message_history,
                    last_message_time, history_hash, tts_ready, executor_queue,
                    appended, appended_by, max_message_history,
                    last_execution_end >>

\* worker threads of the default executor that are running a job
BusyWorkers == { u \in Samples : tts[u].pc \in {"acquiring", "playing"} }

\* _execute_task starts: asyncio.to_thread(self._speaker_lock.acquire)
TTSStart(u) ==
    /\ tts[u].pc = "start"
    /\ tts' = [tts EXCEPT ![u].pc = "acquire_wait"]
    /\ executor_queue' = Append(executor_queue, u)
    /\ UNCHANGED << clock, task_expire_time, speaker_lock, heard, stt,
                    llm_ready, llm_queue, llm, message_history,
                    last_message_time, history_hash, tts_ready, tts_queue,
                    appended, appended_by, max_message_history,
                    last_execution_end >>

\* a free worker thread takes the oldest waiting job
WorkerTake ==
    /\ executor_queue # << >>
    /\ Cardinality(BusyWorkers) < Workers
    /\ LET u == Head(executor_queue) IN
         tts' = [tts EXCEPT ![u].pc =
                    IF tts[u].pc = "acquire_wait" THEN "acquiring"
                    ELSE "playing"]
    /\ executor_queue' = Tail(executor_queue)
    /\ UNCHANGED << clock, task_expire_time, speaker_lock, heard, stt,
                    llm_ready, llm_queue, llm, message_history,
                    last_message_time, history_hash, tts_ready, tts_queue,
                    appended, appended_by, max_message_history,
                    last_execution_end >>

\* threading.Lock.acquire can return
LockFreeAlways(locked) == TRUE
LockFree(locked) == ~locked

\* the worker's speaker_lock.acquire() returns; the coroutine resumes and
\* awaits the speech request and stream_to_file
TTSAcquireIfFresh(u) ==
    /\ tts[u].pc = "acquiring"
    /\ LockFree(speaker_lock)
    /\ ~HasExpired(tts[u].receiving_time, task_expire_time, clock)
    /\ speaker_lock' = TRUE
    /\ tts' = [tts EXCEPT ![u].pc = "synth", ![u].dequeued_at = 0]
    /\ UNCHANGED << clock, task_expire_time, heard, stt, llm_ready, llm_queue,
                    llm, message_history, last_message_time, history_hash,
                    tts_ready, tts_queue, executor_queue, max_message_history,
                    appended, appended_by, last_execution_end >>
TTSAcquire(u) ==
    /\ tts[u].pc = "acquiring"
    /\ LockFree(speaker_lock)
    /\ speaker_lock' = TRUE
    /\ tts' = [tts EXCEPT ![u].pc = "synth", ![u].dequeued_at = 0]
    /\ UNCHANGED << clock, task_expire_time, heard, stt, llm_ready, llm_queue,
                    llm, message_history, last_message_time, history_hash,
                    tts_ready, tts_queue, executor_queue, appended,
                    appended_by, max_message_history, last_execution_end >>

\* synthesis and streaming succeeded: asyncio.to_thread(self._play_audio)
TTSSynthOk(u) ==
    /\ tts[u].pc = "synth"
    /\ tts' = [tts EXCEPT ![u].pc = "play_wait"]
    /\ executor_queue' = Append(executor_queue, u)
    /\ UNCHANGED << clock, task_expire_time, speaker_lock, heard, stt,
                    llm_ready, llm_queue, llm, message_history,
                    last_message_time, history_hash, tts_ready, tts_queue,
                    appended, appended_by, max_message_history,
                    last_execution_end >>

\* synthesis or streaming raised: except logs, finally releases the lock
TTSSynthFail(u) ==
    /\ tts[u].pc = "synth"
    /\ speaker_lock' = FALSE
    /\ tts' = [tts EXCEPT ![u] = [TtsNone EXCEPT !.pc = "failed"]]
    /\ UNCHANGED << clock, task_expire_time, heard, stt, llm_ready, llm_queue,
                    llm, message_history, last_message_time, history_hash,
                    tts_ready, tts_queue, executor_queue, appended,
                    appended_by, max_message_history, last_execution_end >>

\* _play_audio returned: asyncio.sleep(2)
TTSPlayOk(u) ==
    /\ tts[u].pc = "playing"
    /\ tts' = [tts EXCEPT ![u].pc = "sleep", ![u].wake = clock + Cooldown]
    /\ UNCHANGED << clock, task_expire_time, speaker_lock, heard, stt,
                    llm_ready, llm_queue, llm, message_history,
                    last_message_time, history_hash, tts_ready, tts_queue,
                    executor_queue, appended, appended_by, max_message_history,
                    last_execution_end >>

\* _play_audio raised: except logs, finally releases the lock
TTSPlayFailKeepsLock(u) ==
    /\ tts[u].pc = "playing"
    /\ tts' = [tts EXCEPT ![u] = [TtsNone EXCEPT !.pc = "failed"]]
    /\ UNCHANGED << clock, task_expire_time, speaker_lock, heard, stt,
                    llm_ready, llm_queue, llm, message_history,
                    last_message_time, history_hash, tts_ready, tts_queue,
                    executor_queue, max_message_history, appended,
                    appended_by, last_execution_end >>
TTSPlayFail(u) ==
    /\ tts[u].pc = "playing"
    /\ speaker_lock' = FALSE
    /\ tts' = [tts EXCEPT ![u] = [TtsNone EXCEPT !.pc = "failed"]]
    /\ UNCHANGED << clock, task_expire_time, heard, stt, llm_ready, llm_queue,
                    llm, message_history, last_message_time, history_hash,
                    tts_ready, tts_queue, executor_queue, appended,
                    appended_by, max_message_history, last_execution_end >>

\* the sleep is over: finally releases the lock
TTSWakeEarly(u) ==
    /\ tts[u].pc = "sleep"
    /\ speaker_lock' = FALSE
    /\ tts' = [tts EXCEPT ![u] = [TtsNone EXCEPT !.pc = "done"]]
    /\ UNCHANGED << clock, task_expire_time, heard, stt, llm_ready, llm_queue,
                    llm, message_history, last_message_time, history_hash,
                    tts_ready, tts_queue, executor_queue, max_message_history,
                    appended, appended_by, last_execution_end >>
TTSWake(u) ==
    /\ tts[u].pc = "sleep"
    /\ clock >= tts[u].wake
    /\ speaker_lock' = FALSE
    /\ tts' = [tts EXCEPT ![u] = [TtsNone EXCEPT !.pc = "done"]]
    /\ UNCHANGED << clock, task_expire_time, heard, stt, llm_ready, llm_queue,
                    llm, message_history, last_message_time, history_hash,
                    tts_ready, tts_queue, executor_queue, appended,
                    appended_by, max_message_history, last_execution_end >>

(***************************************************************************)
(* The system.                                                             *)
(***************************************************************************)
Next ==
    \/ Tick
    \/ Callback
    \/ \E i \in Samples, out \in TranscriptionOutcomes : Recognize(i, out)
    \/ \E i \in Samples : RecognizeResult(i)
    \/ \E i \in Samples : LLMAddTask(i)
    \/ LLMPut
    \/ LLMConsume
    \/ \E u \in Samples : LLMStart(u)
    \/ \E u \in Samples, out \in ChatOutcomes : LLMChatReturn(u, out)
    \/ \E u \in Samples : LLMResumeError(u)
    \/ \E u \in Samples : LLMResumeNone(u)
    \/ \E u \in Samples : LLMResumeEmpty(u)
    \/ \E u \in Samples, d \in {0, 1} : LLMResumeReply(u, d)
    \/ TTSPut
    \/ TTSConsume
    \/ \E u \in Samples : TTSStart(u)
    \/ WorkerTake
    \/ \E u \in Samples : TTSAcquire(u)
    \/ \E u \in Samples : TTSSynthOk(u)
    \/ \E u \in Samples : TTSSynthFail(u)
    \/ \E u \in Samples : TTSPlayOk(u)
    \/ \E u \in Samples : TTSPlayFail(u)
    \/ \E u \in Samples : TTSWake(u)

Spec == Init /\ [][Next]_vars

\* The program in the middle of a session, with room in the history for two
\* more exchanges: a first exchange ("Hi." heard, answered) has just been
\* completed, and the speech task of its answer is over.
LongMessageHistory == MaxMessageHistory + 2
FirstExchange ==
    << Message(NormalizeTranscript(<< "H", "i", "." >>), "user"),
       Message(CleanReply(<< " ", "O", "k" >>), "assistant") >>
InitInSession ==
    /\ clock = StartTime
    /\ task_expire_time \in {0, TaskExpireTime}
    /\ speaker_lock = FALSE
    /\ heard = 0
    /\ stt = [i \in Samples |-> SttIdle]
    /\ llm_ready = << >>
    /\ llm_queue = << >>
    /\ llm = [i \in Samples |-> LlmNone]
    /\ max_message_history = LongMessageHistory
    /\ message_history = FirstExchange
    /\ last_message_time = StartTime
    /\ history_hash = RandomString(0)
    /\ tts_ready = << >>
    /\ tts_queue = << >>
    /\ tts = [i \in Samples |-> TtsNone]
    /\ executor_queue = << >>
    /\ appended = FirstExchange
    /\ appended_by = << 0, 0 >>
    /\ last_execution_end = StartTime

SpecInSession == InitInSession /\ [][Next]_vars

(***************************************************************************)
(* Properties.                                                             *)
(***************************************************************************)
\* units whose task was dequeued and dispatched / dropped as expired
Dispatched(units) == { u \in Samples : units[u].pc = "start" }
Dropped(units) == { u \in Samples : units[u].pc = "expired" }

\* C1, as claimed: with ttl # 0, in both queues, a task dequeued at
\* now >= receiving_time + ttl (the boundary included) is dropped, never
\* dispatched: a dispatched task was dequeued at now < receiving_time + ttl.
C1_DroppedFromBoundary ==
    task_expire_time # 0 =>
        /\ \A u \in Dispatched(llm) :
             llm[u].dequeued_at < llm[u].receiving_time + task_expire_time
        /\ \A u \in Dispatched(tts) :
             tts[u].dequeued_at < tts[u].receiving_time + task_expire_time

\* C1, amended: with ttl # 0, in both queues, a task is dropped exactly when
\* it is dequeued at now > receiving_time + ttl (at now = receiving_time + ttl
\* it is still dispatched), and a dropped task is never dispatched later.
C1_DroppedPastBoundary ==
    /\ [](task_expire_time # 0 =>
            /\ \A u \in Dispatched(llm) :
                 llm[u].dequeued_at <= llm[u].receiving_time + task_expire_time
            /\ \A u \in Dispatched(tts) :
                 tts[u].dequeued_at <= tts[u].receiving_time + task_expire_time
            /\ \A u \in Dropped(llm) :
                 llm[u].dequeued_at > llm[u].receiving_time + task_expire_time
            /\ \A u \in Dropped(tts) :
                 tts[u].dequeued_at > tts[u].receiving_time + task_expire_time)
    /\ [][\A u \in Samples :
            /\ llm[u].pc = "expired" => llm'[u].pc = "expired"
            /\ tts[u].pc = "expired" => tts'[u].pc = "expired"]_vars

\* a text task has been dropped as expired, and a speech task dequeued
\* exactly at receiving_time + ttl has been dispatched
C1_Witness ==
    /\ task_expire_time # 0
    /\ \E u \in Dropped(llm) : \E v \in Dispatched(tts) :
         /\ u # v
         /\ tts[v].dequeued_at = tts[v].receiving_time + task_expire_time

\* C2: with ttl = 0 every dequeued task, of either queue, is dispatched and
\* none is dropped as expired, whatever its age.
C2_ZeroTtlNeverExpires ==
    /\ [](task_expire_time = 0 => Dropped(llm) = {} /\ Dropped(tts) = {})
    /\ [][task_expire_time = 0 =>
            /\ Len(llm_queue') < Len(llm_queue)
                 => llm'[Head(llm_queue).id].pc = "start"
            /\ Len(tts_queue') < Len(tts_queue)
                 => tts'[Head(tts_queue).id].pc = "start"]_vars

\* with ttl = 0, a text task and a speech task older than the non-zero ttl
\* would allow have been dequeued and dispatched
C2_Witness ==
    /\ task_expire_time = 0
    /\ \E u \in Dispatched(llm) :
         llm[u].dequeued_at > llm[u].receiving_time + TaskExpireTime
    /\ \E v \in Dispatched(tts) :
         tts[v].dequeued_at > tts[v].receiving_time + TaskExpireTime

\* speech units between the return of speaker_lock.acquire() and release()
Holders ==
    { u \in Samples : tts[u].pc \in {"synth", "play_wait", "playing", "sleep"} }

\* C3: the speaker lock has at most one holder: no two speech units are
\* between acquisition and release at once.
C3_AtMostOneHolder ==
    /\ Cardinality(Holders) <= 1
    /\ speaker_lock <=> Holders # {}

\* one unit holds the lock while another is blocked in acquire()
C3_Witness ==
    \E u \in Holders : \E v \in Samples : tts[v].pc = "acquiring"

\* C4, as claimed: the recognition path never performs LLMManager.add_task
\* while the speaker lock is held.
C4_NoAddTaskWhileHeld ==
    \A i \in Samples : stt[i].pc = "added" => ~stt[i].locked_at_add

\* the samples whose text task was handed to the Reply Stage
Admitted ==
    { t.id : t \in Range(llm_ready) \cup Range(llm_queue) }
        \cup { u \in Samples : llm[u].pc # "none" }

\* C4, amended: every recognition task that reaches the Reply Stage's queue
\* comes from a sample whose callback found the speaker lock free; the lock
\* is only checked by the callback, so add_task itself may run while the
\* lock is held.
C4_AdmittedWhileFree ==
    /\ \A i \in Admitted : ~stt[i].saw_locked
    /\ \A i \in Samples : stt[i].pc = "added" => i \in Admitted

\* a task was added while the lock was held, by a recognition whose callback
\* had found the lock free
C4_Witness ==
    \E i \in Samples :
        stt[i].pc = "added" /\ stt[i].locked_at_add /\ ~stt[i].saw_locked

\* the callback handles the next sample in this step
CallbackStep == heard' = heard + 1

\* steps of the recognition path of sample i
SkippedStays(i) == stt[i].pc = "skipped" => stt'[i] = stt[i]
ResultHandled(i) == stt[i].pc = "transcribed" /\ stt'[i].pc # "transcribed"

\* C5, as claimed: a callback run while the lock is held starts no
\* transcription and never leads to a task; a callback run while the lock
\* is free starts the transcription, and a non-empty transcription result is
\* submitted as a text task; the callback leaves the lock as it is.
C5_NonEmptyResultSubmitted ==
    [][/\ CallbackStep =>
            /\ speaker_lock' = speaker_lock
            /\ speaker_lock => stt'[heard'].pc = "skipped"
            /\ ~speaker_lock => stt'[heard'].pc = "submitted"
       /\ \A i \in Samples :
            /\ SkippedStays(i)
            /\ ResultHandled(i) /\ stt[i].result.kind = "text"
                 /\ stt[i].result.text # << >>
                 => stt'[i].pc = "have_task"
            /\ stt[i].pc = "have_task" /\ stt'[i] # stt[i]
                 => /\ stt'[i].pc = "added"
                    /\ Len(llm_ready') = Len(llm_ready) + 1]_vars

\* the transcription still holds text once whitespace around it and one
\* final "." are taken away
HasSpeech(text) == Strip(text) \notin { << >>, << "." >> }

\* C5, amended: as claimed, except that the result submitted is one that is
\* non-empty after lower-casing, stripping whitespace and removing one
\* trailing "."; a result that this normalisation empties is not submitted.
C5_NormalizedResultSubmitted ==
    [][/\ CallbackStep =>
            /\ speaker_lock' = speaker_lock
            /\ speaker_lock => stt'[heard'].pc = "skipped"
            /\ ~speaker_lock => stt'[heard'].pc = "submitted"
       /\ \A i \in Samples :
            /\ SkippedStays(i)
            /\ ResultHandled(i) /\ stt[i].result.kind = "text"
                 => IF HasSpeech(stt[i].result.text)
                    THEN /\ stt'[i].pc = "have_task"
                         /\ stt'[i].text # << >>
                    ELSE stt'[i].pc = "nospeech"
            /\ stt[i].pc = "have_task" /\ stt'[i] # stt[i]
                 => /\ stt'[i].pc = "added"
                    /\ Len(llm_ready') = Len(llm_ready) + 1]_vars

\* a sample was skipped because the lock was held, and the text of a sample
\* heard while the lock was free was submitted
C5_Witness ==
    \E i, j \in Samples :
        /\ stt[i].pc = "skipped" /\ stt[i].saw_locked
        /\ stt[j].pc = "added" /\ ~stt[j].saw_locked

\* C6: the session history never holds more than max_message_history
\* messages.
C6_HistoryBounded == Len(message_history) <= max_message_history

\* the history is full after more appends than it can hold
C6_Witness ==
    /\ Len(message_history) = max_message_history
    /\ Len(appended) > max_message_history

\* the last n elements of s
LastN(s, n) == SubSeq(s, Len(s) - n + 1, Len(s))

\* C7: eviction is oldest-first: after k appends since the last clear the
\* history is the last min(k, max_message_history) appended messages, in
\* the order of their appends.
C7_OldestEvictedFirst ==
    message_history =
        LastN(appended,
              IF Len(appended) < max_message_history
              THEN Len(appended) ELSE max_message_history)

\* two messages have been evicted
C7_Witness ==
    /\ Len(appended) >= max_message_history + 2
    /\ message_history # << >>

\* the chat result is missing, or a reply with an empty body
MissingResult(r) == r.kind = "none"
EmptyBody(r) == r.kind = "message" /\ r.content = << >>

\* the execution of task u handles the chat result in this step
ReplyHandled(u) == llm[u].pc = "resume" /\ llm'[u].pc # "resume"

IdleResetStep(u) ==
    /\ llm[u].pc = "start" /\ llm'[u].pc = "chat"
    /\ clock - last_message_time > RecollectionTime
NoReplyClearStep(u) ==
    ReplyHandled(u) /\ MissingResult(llm[u].reply)

\* C9: every step that clears the history changes the session token.
C9_ClearChangesToken ==
    [][\A u \in Samples :
         (IdleResetStep(u) \/ NoReplyClearStep(u))
            => history_hash' # history_hash]_vars

\* C10: when an execution starts more than recollection_time after the last
\* execution ended, the history is emptied and the token changed before its
\* user message is appended: right after the append the history, and what
\* was appended since the last clear, is that one user message.
C10_IdleGapResets ==
    [][\A u \in Samples :
         (/\ llm[u].pc = "start" /\ llm'[u].pc = "chat"
          /\ last_execution_end > 0
          /\ clock - last_execution_end > RecollectionTime)
         => /\ message_history' = << Message(llm[u].text, "user") >>
            /\ appended' = << Message(llm[u].text, "user") >>
            /\ history_hash' # history_hash]_vars

\* an execution that started after a successful one, more than
\* recollection_time after its end, waits for its reply with only its own
\* user message in the history
C10_Witness ==
    \E u, v \in Samples :
        /\ llm[v].pc = "done"
        /\ llm[u].pc = "chat"
        /\ clock - last_execution_end > RecollectionTime
        /\ message_history = << Message(llm[u].text, "user") >>
        /\ last_message_time = 0
        /\ history_hash = RandomString(RandomString(0))

\* a speech unit's _execute_task has returned
Finished == {"done", "failed"}
\* speech unit u releases the lock in this step
Releases(u) == u \in Holders /\ speaker_lock /\ ~speaker_lock'

\* C11: a speech unit that acquired the speaker lock releases it exactly
\* once on every exit path (success, or failure of synthesis, streaming or
\* playback): it ends only by a step that frees the lock, the lock is freed
\* only by the ending step of its holder, a unit that has ended takes no
\* further step; and when no dispatched speech unit is in flight the lock is
\* free.
C11_ReleasedOnceOnEveryPath ==
    /\ [][/\ \A u \in Holders :
               /\ tts'[u].pc \in Finished => Releases(u)
               /\ tts'[u].pc \in Finished
                    \/ tts'[u].pc \in {"synth", "play_wait", "playing", "sleep"}
           /\ speaker_lock /\ ~speaker_lock'
                => \E h \in Holders : tts'[h].pc \in Finished
           /\ \A f \in Samples :
                tts[f].pc \in Finished => tts'[f] = tts[f]]_vars
    /\ []((\A u \in Samples :
              tts[u].pc \in {"none", "expired"} \cup Finished)
            => ~speaker_lock)

\* one speech unit has ended after its cooldown and another on a failure,
\* and the lock is free
C11_Witness ==
    \E u, v \in Samples :
        /\ tts[u].pc = "done"
        /\ tts[v].pc = "failed"
        /\ ~speaker_lock

\* C12, as claimed: whether synthesis and playback succeed or fail, a speech
\* unit never ends without having waited out the cooldown after its
\* attempt: every ending step is taken from the sleep, at or after the
\* wake-up time.
C12_CooldownOnEveryPath ==
    [][\A u \in Holders :
         tts'[u].pc \in Finished
            => tts[u].pc = "sleep" /\ clock >= tts[u].wake]_vars

\* C12, amended: the lock is released on every exit path, but the cooldown
\* is waited out only after a playback that succeeded, and before the
\* release: the sleep starts when playback returns, lasts Cooldown with the
\* lock still held, and the unit ends "done" only from it; a unit whose
\* synthesis, streaming or playback failed ends at once, with no cooldown.
C12_CooldownAfterPlayback ==
    [][\A u \in Holders :
         /\ tts'[u].pc \in Finished => Releases(u)
         /\ tts[u].pc = "playing" /\ tts'[u].pc = "sleep"
              => tts'[u].wake = clock + Cooldown /\ speaker_lock'
         /\ tts'[u].pc = "sleep" => tts[u].pc \in {"playing", "sleep"}
         /\ tts[u].pc = "sleep" /\ clock < tts[u].wake
              => tts'[u] = tts[u] /\ speaker_lock'
         /\ tts'[u].pc = "done" => tts[u].pc = "sleep"
         /\ tts'[u].pc = "failed" => tts[u].pc \in {"synth", "playing"}]_vars

\* a unit has waited out its cooldown and still holds the lock, after
\* another unit ended on a failure
C12_Witness ==
    \E u, v \in Samples :
        /\ tts[u].pc = "sleep"
        /\ clock >= tts[u].wake
        /\ speaker_lock
        /\ tts[v].pc = "failed"

\* C13: when the chat call of an execution raises, the step that handles it
\* changes neither the history (the user message appended before the call
\* stays) nor the last message time nor the token, submits no speech task
\* and puts nothing back on the queue; the execution has ended and takes no
\* further step (no retry); and the consumer loop can still dequeue
\* whatever is on the queue.
C13_FailedChatAbandons ==
    /\ [][\A u \in Samples :
            /\ ReplyHandled(u) /\ llm[u].reply.kind = "error"
                 => /\ message_history' = message_history
                    /\ appended' = appended
                    /\ last_message_time' = last_message_time
                    /\ history_hash' = history_hash
                    /\ tts_ready' = tts_ready /\ tts_queue' = tts_queue
                    /\ llm_ready' = llm_ready /\ llm_queue' = llm_queue
                    /\ llm'[u].pc = "failed"
            /\ llm[u].pc = "failed" => llm'[u] = llm[u]]_vars
    /\ [](llm_queue # << >> => ENABLED LLMConsume)

\* an execution ended on a failed chat call with its user message still in
\* the history, and a task dequeued later has been dispatched
C13_Witness ==
    \E u, v \in Samples :
        /\ llm[u].pc = "failed"
        /\ u \in Range(appended_by)
        /\ llm[v].pc = "start"
        /\ llm[v].dequeued_at > last_execution_end

\* the tasks given to add_task and not yet dequeued, oldest first: those on
\* the queue, then those whose put_nowait the loop has still to run
LLMPending == llm_queue \o llm_ready
TTSPending == tts_queue \o tts_ready
Ids(tasks) == { tasks[k].id : k \in DOMAIN tasks }
\* add_task is called for task i / the consumer loop dequeues task u
LLMAddStep(i) == stt[i].pc = "have_task" /\ stt'[i].pc = "added"
LLMDequeueStep(u) == llm[u].pc = "none" /\ llm'[u].pc # "none"
TTSAddStep(u) == llm[u].pc = "resume" /\ llm'[u].pc = "done"
TTSDequeueStep(u) == tts[u].pc = "none" /\ tts'[u].pc # "none"

\* C14: each of the two queues is first-in first-out between add_task and
\* the consumer loop: an add_task call puts its task behind all pending
\* ones, a dequeue takes the oldest pending task and hands exactly that task
\* to the consumer, no other step changes the pending tasks or their order;
\* a task that was added is either pending, once, or has been dequeued, and
\* is never dequeued again.
C14_FifoNoLossNoDuplicate ==
    /\ [][ /\ \A i \in Samples :
               /\ LLMAddStep(i)
                    => LLMPending' =
                         Append(LLMPending,
                                Task(i, stt[i].receiving_time, stt[i].text))
               /\ LLMDequeueStep(i)
                    => /\ LLMPending # << >>
                       /\ LLMPending' = Tail(LLMPending)
                       /\ Head(LLMPending) =
                            Task(i, llm'[i].receiving_time, llm'[i].text)
               /\ TTSAddStep(i)
                    => /\ Len(TTSPending') = Len(TTSPending) + 1
                       /\ SubSeq(TTSPending', 1, Len(TTSPending)) = TTSPending
                       /\ TTSPending'[Len(TTSPending')].id = i
               /\ TTSDequeueStep(i)
                    => /\ TTSPending # << >>
                       /\ TTSPending' = Tail(TTSPending)
                       /\ Head(TTSPending) =
                            Task(i, tts'[i].receiving_time, tts'[i].input)
               /\ llm[i].pc # "none" => llm'[i].pc # "none"
               /\ tts[i].pc # "none" => tts'[i].pc # "none"
           /\ (\A i \in Samples : ~LLMAddStep(i) /\ ~LLMDequeueStep(i))
                => LLMPending' = LLMPending
           /\ (\A i \in Samples : ~TTSAddStep(i) /\ ~TTSDequeueStep(i))
                => TTSPending' = TTSPending]_vars
    /\ [](/\ Cardinality(Ids(LLMPending)) = Len(LLMPending)
           /\ Cardinality(Ids(TTSPending)) = Len(TTSPending)
           /\ \A i \in Samples :
                /\ stt[i].pc = "added"
                     <=> (i \in Ids(LLMPending)) # (llm[i].pc # "none")
                /\ stt[i].pc # "added"
                     => i \notin Ids(LLMPending) /\ llm[i].pc = "none"
                /\ llm[i].pc = "done"
                     <=> (i \in Ids(TTSPending)) # (tts[i].pc # "none")
                /\ llm[i].pc # "done"
                     => i \notin Ids(TTSPending) /\ tts[i].pc = "none")

\* two recognitions called add_task in the opposite order of their audio
\* samples: the later sample's task is on the queue, the earlier sample's
\* task behind it, its put_nowait still to run
C14_Witness ==
    /\ Len(llm_queue) = 1
    /\ Len(llm_ready) = 1
    /\ Head(llm_queue).id > Head(llm_ready).id

\* the chat call of text task u / the synthesis call of speech task u
\* starts in this step
ChatStarts(u) == llm[u].pc = "start" /\ llm'[u].pc = "chat"
SynthesisStarts(u) == tts[u].pc = "acquiring" /\ tts'[u].pc = "synth"

\* C15, as claimed: with ttl # 0, no chat call and no synthesis call starts
\* at now >= receiving_time + ttl.
C15_NoProcessingPastTtl ==
    [][task_expire_time # 0 =>
         \A u \in Samples :
            /\ ChatStarts(u)
                 => clock < llm[u].receiving_time + task_expire_time
            /\ SynthesisStarts(u)
                 => clock < tts[u].receiving_time + task_expire_time]_vars

\* C15, amended: with ttl # 0, expiry is evaluated once, when the task is
\* dequeued: a chat call or a synthesis call starts only for a task
\* dequeued at now <= receiving_time + ttl, a task is dropped as expired
\* only by the dequeue, and a speech unit waiting for the lock starts its
\* synthesis as soon as it gets the lock, whatever the time.
C15_ExpiryCheckedAtDequeueOnly ==
    /\ [][\A u \in Samples :
            /\ task_expire_time # 0 /\ ChatStarts(u)
                 => llm[u].dequeued_at
                      <= llm[u].receiving_time + task_expire_time
            /\ task_expire_time # 0 /\ SynthesisStarts(u)
                 => tts[u].dequeued_at
                      <= tts[u].receiving_time + task_expire_time
            /\ llm'[u].pc = "expired" => llm[u].pc \in {"none", "expired"}
            /\ tts'[u].pc = "expired" => tts[u].pc \in {"none", "expired"}]_vars
    /\ [](\A u \in Samples :
             /\ llm[u].pc = "start" => ENABLED LLMStart(u)
             /\ tts[u].pc = "acquiring" /\ ~speaker_lock
                  => ENABLED TTSAcquire(u))

\* a speech task that was unexpired when dequeued has waited for the lock
\* past receiving_time + ttl, behind a unit that has ended, and its
\* synthesis can start
C15_Witness ==
    \E u, v \in Samples :
        /\ task_expire_time # 0
        /\ tts[u].pc = "acquiring"
        /\ tts[u].dequeued_at <= tts[u].receiving_time + task_expire_time
        /\ clock > tts[u].receiving_time + task_expire_time
        /\ tts[v].pc \in Finished
        /\ ~speaker_lock
        /\ ENABLED TTSAcquire(u)

\* the execution of task u waits for its chat call or for its turn to resume
InFlight(u) == llm[u].pc \in {"chat", "resume"}
\* the execution of task u has a usable reply to resume with
HasReply(u) ==
    /\ llm[u].pc = "resume"
    /\ llm[u].reply.kind = "message"
    /\ CleanReply(llm[u].reply.content) # << >>

\* C16: the executions of two dequeued text tasks overlap and complete in
\* either order: a dispatched execution starts (and appends its user
\* message) while another one is waiting for its chat call, each of two
\* executions holding a reply can append its assistant message first, and
\* each append goes to the end of the history.  Hence the run reached by
\* C16_Witness.
C16_ExecutionsInterleave ==
    /\ [](\A u, v \in Samples :
             /\ llm[u].pc = "start" /\ InFlight(v) => ENABLED LLMStart(u)
             /\ HasReply(u) /\ InFlight(v) => ENABLED LLMResumeReply(u, 0))
    /\ [][\A u \in Samples :
            /\ llm[u].pc = "start" /\ llm'[u].pc = "chat"
                 => /\ appended'[Len(appended')] = Message(llm[u].text, "user")
                    /\ appended_by'[Len(appended_by')] = u
            /\ HasReply(u) /\ llm'[u].pc = "done"
                 => /\ appended' =
                         Append(appended,
                                Message(CleanReply(llm[u].reply.content),
                                        "assistant"))
                    /\ appended_by' = Append(appended_by, u)]_vars

\* within one session (no reset, no clear since the first exchange) tasks a
\* and b were started in this order and b completed first: the history is
\* a's user message, b's user message, b's reply, a's reply
C16_Witness ==
    \E a, b \in Samples :
        /\ a # b
        /\ appended_by = << 0, 0, a, b, b, a >>
        /\ history_hash = RandomString(0)
        /\ Len(message_history) = 4
        /\ message_history = LastN(appended, 4)
        /\ message_history[1].role = "user"
        /\ message_history[2].role = "user"
        /\ message_history[3].role = "assistant"
        /\ message_history[4].role = "assistant"
        /\ message_history[1].text # message_history[2].text

\* the execution of task u appends its assistant message in this step
AssistantAppendStep(u) == HasReply(u) /\ llm'[u].pc = "done"

\* C17, as claimed: the last message time changes only in a step that
\* appends an assistant message; every other step (idle reset, user append,
\* failure, clear, abandon, drop) leaves it unchanged.
C17_OnlyAssistantAppendSetsTime ==
    [][last_message_time' # last_message_time
         => \E u \in Samples : AssistantAppendStep(u)]_vars

\* C17, amended: the last message time is set to the current time by the
\* step that appends an assistant message and to 0 by the idle reset; no
\* other step changes it.
C17_TimeSetByAppendOrReset ==
    [][/\ last_message_time' # last_message_time
            => \E u \in Samples : AssistantAppendStep(u) \/ IdleResetStep(u)
       /\ \A u \in Samples :
            /\ AssistantAppendStep(u) => last_message_time' = clock
            /\ IdleResetStep(u) => last_message_time' = 0]_vars

\* after an execution completed with a reply, the idle reset of a later
\* execution has put the last message time back to 0
C17_Witness ==
    \E u, v \in Samples :
        /\ llm[v].pc = "done"
        /\ InFlight(u)
        /\ appended_by = << u >>
        /\ last_message_time = 0

\* an assistant message is appended in this step
AssistantAppended ==
    /\ Len(appended') = Len(appended) + 1
    /\ appended'[Len(appended')].role = "assistant"
\* a text fit to be spoken: not empty, allowed characters only
Speakable(text) == text # << >> /\ Range(text) \subseteq ALLOWED_CHARACTERS

\* C18: speech tasks and assistant appends correspond one to one: the step
\* that appends an assistant message submits one speech task with exactly
\* the appended text, which is not empty and holds allowed characters only;
\* no other step appends an assistant message or submits a speech task, in
\* particular none of the abandon paths; and every speech task, pending or
\* being spoken, carries such a text.
C18_SpeechIffAssistantAppend ==
    /\ [][ /\ \A u \in Samples :
               /\ AssistantAppendStep(u)
                    => LET text == CleanReply(llm[u].reply.content) IN
                         /\ Speakable(text)
                         /\ AssistantAppended
                         /\ appended'[Len(appended')].text = text
                         /\ message_history'[Len(message_history')] =
                              Message(text, "assistant")
                         /\ tts_ready' =
                              Append(tts_ready, Task(u, clock', text))
               /\ ReplyHandled(u) /\ ~AssistantAppendStep(u)
                    => /\ llm'[u].pc \in {"failed", "noreply", "empty"}
                       /\ ~AssistantAppended
                       /\ tts_ready' = tts_ready
           /\ AssistantAppended \/ Len(tts_ready') > Len(tts_ready)
                => \E u \in Samples : AssistantAppendStep(u)]_vars
    /\ [](/\ \A k \in DOMAIN TTSPending : Speakable(TTSPending[k].text)
           /\ \A u \in Samples :
                tts[u].pc \notin {"none"} \cup Finished
                    => Speakable(tts[u].input))

\* one execution has appended its reply and submitted the speech task that
\* carries it, another has been abandoned without a speech task
C18_Witness ==
    \E u, v \in Samples :
        /\ llm[u].pc = "done"
        /\ llm[v].pc \in {"failed", "noreply", "empty"}
        /\ Ids(TTSPending) = {u}
        /\ tts[v].pc = "none"
        /\ message_history # << >>
        /\ message_history[Len(message_history)] =
             Message(TTSPending[1].text, "assistant")

\* C19: an idle reset never discards the user message of an execution in
\* flight: while execution a, which started the session (idle reset, user
\* append, no assistant append since), waits for its chat call, the start
\* of another execution b leaves a's user message in the session.
C19_ResetSparesInFlightMessage ==
    [][\A a, b \in Samples :
         (/\ a # b
          /\ InFlight(a)
          /\ a \in Range(appended_by)
          /\ last_message_time = 0
          /\ llm[b].pc = "start" /\ llm'[b].pc = "chat")
         => /\ a \in Range(appended_by')
            /\ history_hash' = history_hash]_vars

\* speech units whose _execute_task has started and not returned
Speaking ==
    { u \in Samples :
        tts[u].pc \in {"start", "acquire_wait", "acquiring", "synth",
                       "play_wait", "playing", "sleep"} }

\* C20: the speech stage is free of deadlock: as long as a speech unit has
\* not returned, some unit can take a step, given that synthesis and
\* playback return and that time passes for a unit in its cooldown: a unit
\* can submit its acquire, a worker thread can take a job, an acquire, a
\* synthesis or a playback can return, or a unit is sleeping.
C20_SpeechStageProgresses ==
    Speaking # {} =>
        \/ ENABLED WorkerTake
        \/ \E u \in Samples :
              \/ ENABLED TTSStart(u)
              \/ ENABLED TTSAcquire(u)
              \/ ENABLED TTSSynthOk(u)
              \/ ENABLED TTSPlayOk(u)
              \/ tts[u].pc = "sleep"

=============================================================================
